---- MODULE Spec2Model ----
(***************************************************************************)
(* The JSON editor of ToolBox (src/src/components/tools/JsonEditor.tsx,    *)
(* the second component of the file, lines 429-1487): path detection under *)
(* the cursor, the expand / compress field mutations, Format, Minify and   *)
(* the debounced validation.                                               *)
(*                                                                         *)
(* A text is a sequence of one-character strings.  Offsets are 0-based as  *)
(* in the code; sequence indices are 1-based, so the character at offset o *)
(* is t[o + 1].                                                            *)
(***************************************************************************)
EXTENDS Integers, Sequences, FiniteSets, TLC

\* With(e, LAMBDA x : body) is "let x be e in body"; e is evaluated once,
\* as the value the bound variable takes.
With(v, Op(_)) == CHOOSE y \in {Op(x) : x \in {v}} : TRUE

(***************************************************************************)
(* Characters                                                              *)
(***************************************************************************)
QUOTE == "\""
BSL == "\\"
NL == "\n"
TAB == "\t"
EOF == ""

Digits == <<"0", "1", "2", "3", "4", "5", "6", "7", "8", "9">>

IsDigit(c) == \E d \in 1..10 : Digits[d] = c

DigitVal(c) == (CHOOSE d \in 1..10 : Digits[d] = c) - 1

IsWs(c) == c \in {" ", NL, TAB, "\r"}

At(t, i) == IF i \in 1..Len(t) THEN t[i] ELSE EOF

\* String.prototype.trim() leaves nothing: the text is blank.
IsBlank(t) == \A i \in 1..Len(t) : IsWs(t[i])

RECURSIVE NatToChars(_)
\* String(n) / template interpolation of a non-negative integer.
NatToChars(n) ==
  IF n < 10 THEN <<Digits[n + 1]>>
  ELSE NatToChars(n \div 10) \o <<Digits[(n % 10) + 1]>>

RECURSIVE DigitsToNat(_, _)
DigitsToNat(ds, acc) ==
  IF ds = <<>> THEN acc
  ELSE DigitsToNat(Tail(ds), acc * 10 + DigitVal(Head(ds)))

RECURSIVE Spaces(_)
Spaces(n) == IF n = 0 THEN <<>> ELSE <<" ">> \o Spaces(n - 1)

(***************************************************************************)
(* Parse tree (jsonc-parser's Node) and the JSON grammar.  The texts of    *)
(* the model use objects, arrays, strings with the escapes \" \\ \/ \n \t  *)
(* \r \f, non-negative decimal numbers without exponent, and the           *)
(* literals true, false, null.                                             *)
(***************************************************************************)
NoValue == "none"

Leaf(type, i, next, value) ==
  [type |-> type, offset |-> i - 1, length |-> next - i, value |-> value,
   children |-> <<>>]

Inner(type, i, next, children) ==
  [type |-> type, offset |-> i - 1, length |-> next - i, value |-> NoValue,
   children |-> children]

Fail == [ok |-> FALSE]

Ok(node, next) == [ok |-> TRUE, node |-> node, next |-> next]

RECURSIVE SkipWs(_, _)
SkipWs(t, i) == IF IsWs(At(t, i)) THEN SkipWs(t, i + 1) ELSE i

\* The character an escape sequence \c stands for, EOF when \c is no escape.
Unescape(c) ==
  CASE c = QUOTE -> QUOTE
    [] c = BSL -> BSL
    [] c = "/" -> "/"
    [] c = "n" -> NL
    [] c = "t" -> TAB
    [] c = "r" -> "\r"
    [] c = "f" -> "\f"
    [] OTHER -> EOF

IsControl(c) == c \in {NL, TAB, "\r", "\f"}

RECURSIVE ScanString(_, _, _)
\* From index i, just after the opening quote: the decoded characters up to
\* the closing quote, and the index after it.
ScanString(t, i, acc) ==
  With(At(t, i), LAMBDA c :
    IF c = EOF \/ IsControl(c) THEN [ok |-> FALSE]
    ELSE IF c = QUOTE THEN [ok |-> TRUE, value |-> acc, next |-> i + 1]
    ELSE IF c = BSL
      THEN With(Unescape(At(t, i + 1)), LAMBDA u :
             IF u = EOF THEN [ok |-> FALSE]
             ELSE ScanString(t, i + 2, Append(acc, u)))
    ELSE ScanString(t, i + 1, Append(acc, c)))

ParseString(t, i) ==
  With(ScanString(t, i + 1, <<>>), LAMBDA r :
    IF r.ok THEN Ok(Leaf("string", i, r.next, r.value), r.next) ELSE Fail)

RECURSIVE DigitsEnd(_, _)
DigitsEnd(t, i) == IF IsDigit(At(t, i)) THEN DigitsEnd(t, i + 1) ELSE i

RECURSIVE TrimZeros(_)
TrimZeros(ds) ==
  IF ds # <<>> /\ ds[Len(ds)] = "0" THEN TrimZeros(SubSeq(ds, 1, Len(ds) - 1))
  ELSE ds

\* A number's value: its integer part and its fraction digits without
\* trailing zeros, so that 1.0 and 1 are the same number.
NumVal(int, frac) == [int |-> int, frac |-> frac]

\* e is the end of the integer digits, f the end of the fraction.
ParseNumber(t, i) ==
  With(DigitsEnd(t, i), LAMBDA e :
  With(IF At(t, e) = "." THEN DigitsEnd(t, e + 1) ELSE e, LAMBDA f :
    IF \/ e = i
       \/ At(t, i) = "0" /\ e > i + 1
       \/ At(t, e) = "." /\ f = e + 1
    THEN Fail
    ELSE Ok(Leaf("number", i, f,
                 NumVal(DigitsToNat(SubSeq(t, i, e - 1), 0),
                        IF f > e THEN TrimZeros(SubSeq(t, e + 1, f - 1))
                        ELSE <<>>)), f)))

ParseLiteral(t, i, word, type, value) ==
  IF i + Len(word) - 1 <= Len(t) /\ SubSeq(t, i, i + Len(word) - 1) = word
  THEN Ok(Leaf(type, i, i + Len(word), value), i + Len(word))
  ELSE Fail

RECURSIVE ParseValue(_, _)
RECURSIVE ParseElements(_, _, _)
RECURSIVE ParseMembers(_, _, _)

\* The elements of an array from index i (at an element) to the closing
\* bracket: the element nodes and the index after the bracket.
ParseElements(t, i, acc) ==
  With(ParseValue(t, i), LAMBDA r :
    IF ~r.ok THEN [ok |-> FALSE]
    ELSE With(SkipWs(t, r.next), LAMBDA k :
         With(Append(acc, r.node), LAMBDA nodes :
           IF At(t, k) = "," THEN ParseElements(t, SkipWs(t, k + 1), nodes)
           ELSE IF At(t, k) = "]"
             THEN [ok |-> TRUE, nodes |-> nodes, next |-> k + 1]
           ELSE [ok |-> FALSE])))

\* The properties of an object from index i (at a key) to the closing brace.
ParseMembers(t, i, acc) ==
  IF At(t, i) # QUOTE THEN [ok |-> FALSE]
  ELSE
  With(ParseString(t, i), LAMBDA key :
    IF ~key.ok THEN [ok |-> FALSE]
    ELSE
    With(SkipWs(t, key.next), LAMBDA c :
      IF At(t, c) # ":" THEN [ok |-> FALSE]
      ELSE
      With(ParseValue(t, SkipWs(t, c + 1)), LAMBDA r :
        IF ~r.ok THEN [ok |-> FALSE]
        ELSE
        With(SkipWs(t, r.next), LAMBDA k :
        With(Append(acc, Inner("property", i, r.next, <<key.node, r.node>>)),
             LAMBDA nodes :
          IF At(t, k) = "," THEN ParseMembers(t, SkipWs(t, k + 1), nodes)
          ELSE IF At(t, k) = "}"
            THEN [ok |-> TRUE, nodes |-> nodes, next |-> k + 1]
          ELSE [ok |-> FALSE])))))

\* An object or array that opens at index i; j is the first index after the
\* bracket that holds no whitespace.
ParseContainer(t, i, j, type, close) ==
  IF At(t, j) = close THEN Ok(Inner(type, i, j + 1, <<>>), j + 1)
  ELSE With(IF type = "object" THEN ParseMembers(t, j, <<>>)
            ELSE ParseElements(t, j, <<>>), LAMBDA r :
         IF r.ok THEN Ok(Inner(type, i, r.next, r.nodes), r.next) ELSE Fail)

ParseValue(t, i) ==
  With(At(t, i), LAMBDA c :
    CASE c = "{" -> ParseContainer(t, i, SkipWs(t, i + 1), "object", "}")
      [] c = "[" -> ParseContainer(t, i, SkipWs(t, i + 1), "array", "]")
      [] c = QUOTE -> ParseString(t, i)
      [] c = "t" -> ParseLiteral(t, i, <<"t", "r", "u", "e">>, "boolean", TRUE)
      [] c = "f" ->
           ParseLiteral(t, i, <<"f", "a", "l", "s", "e">>, "boolean", FALSE)
      [] c = "n" -> ParseLiteral(t, i, <<"n", "u", "l", "l">>, "null", NoValue)
      [] IsDigit(c) -> ParseNumber(t, i)
      [] OTHER -> Fail)

\* parseTree(text) of jsonc-parser on the texts JSON.parse accepts: a whole
\* text is one value between optional whitespace.
ParseTree(t) ==
  With(ParseValue(t, SkipWs(t, 1)), LAMBDA r :
    IF r.ok /\ SkipWs(t, r.next) = Len(t) + 1
    THEN [ok |-> TRUE, tree |-> r.node]
    ELSE [ok |-> FALSE])

(***************************************************************************)
(* Decoded values (what JSON.parse returns).  An object is the sequence of *)
(* its own properties in enumeration order: array-index keys ascending,    *)
(* then the other keys in insertion order; a repeated key keeps its place  *)
(* and takes the last value.                                               *)
(***************************************************************************)
VString(s) == [t |-> "string", s |-> s]
VNumber(n) == [t |-> "number", n |-> n]
VBoolean(b) == [t |-> "boolean", b |-> b]
VNull == [t |-> "null"]
VArray(items) == [t |-> "array", items |-> items]
VObject(props) == [t |-> "object", props |-> props]

\* typeof v
TypeOf(v) ==
  CASE v.t = "string" -> "string"
    [] v.t = "number" -> "number"
    [] v.t = "boolean" -> "boolean"
    [] OTHER -> "object"

\* A canonical array index: "0", "1", "10", but not "01" or "".
IsIndexKey(k) ==
  /\ k # <<>>
  /\ \A i \in 1..Len(k) : IsDigit(k[i])
  /\ (Len(k) > 1 => k[1] # "0")

Min(S) == CHOOSE i \in S : \A j \in S : i <= j

Max(S) == CHOOSE i \in S : \A j \in S : i >= j

\* The place of key k in the property list, 0 when it has none.
KeyPos(props, k) ==
  IF \E i \in 1..Len(props) : props[i].k = k
  THEN CHOOSE i \in 1..Len(props) : props[i].k = k
  ELSE 0

\* Where a new key goes in the enumeration order.
InsertPos(props, k) ==
  IF ~IsIndexKey(k) THEN Len(props) + 1
  ELSE With({i \in 1..Len(props) :
               \/ ~IsIndexKey(props[i].k)
               \/ DigitsToNat(props[i].k, 0) > DigitsToNat(k, 0)},
            LAMBDA later : IF later = {} THEN Len(props) + 1 ELSE Min(later))

InsertAt(props, p, entry) ==
  SubSeq(props, 1, p - 1) \o <<entry>> \o SubSeq(props, p, Len(props))

\* obj[k] = v on the property list.
PropPut(props, k, v) ==
  With(KeyPos(props, k), LAMBDA at :
    IF at # 0 THEN [props EXCEPT ![at] = [k |-> k, v |-> v]]
    ELSE InsertAt(props, InsertPos(props, k), [k |-> k, v |-> v]))

RECURSIVE Decode(_)
RECURSIVE DecodeProps(_, _)
RECURSIVE DecodeItems(_, _)

DecodeItems(nodes, acc) ==
  IF nodes = <<>> THEN acc
  ELSE DecodeItems(Tail(nodes), Append(acc, Decode(Head(nodes))))

DecodeProps(nodes, acc) ==
  IF nodes = <<>> THEN acc
  ELSE DecodeProps(Tail(nodes),
                   PropPut(acc, Head(nodes).children[1].value,
                           Decode(Head(nodes).children[2])))

\* The value of a parse-tree node.
Decode(node) ==
  CASE node.type = "string" -> VString(node.value)
    [] node.type = "number" -> VNumber(node.value)
    [] node.type = "boolean" -> VBoolean(node.value)
    [] node.type = "null" -> VNull
    [] node.type = "array" -> VArray(DecodeItems(node.children, <<>>))
    [] node.type = "object" -> VObject(DecodeProps(node.children, <<>>))

\* JSON.parse(text): ok is FALSE where it throws a SyntaxError.
JSONParse(t) ==
  With(ParseTree(t), LAMBDA r :
    IF r.ok THEN [ok |-> TRUE, value |-> Decode(r.tree)] ELSE [ok |-> FALSE])

(***************************************************************************)
(* JSON.stringify(value, null, indent); indent 0 is JSON.stringify(value). *)
(***************************************************************************)
EscapeChar(c) ==
  CASE c = QUOTE -> <<BSL, QUOTE>>
    [] c = BSL -> <<BSL, BSL>>
    [] c = NL -> <<BSL, "n">>
    [] c = TAB -> <<BSL, "t">>
    [] c = "\r" -> <<BSL, "r">>
    [] c = "\f" -> <<BSL, "f">>
    [] OTHER -> <<c>>

RECURSIVE EscapeChars(_)
EscapeChars(s) ==
  IF s = <<>> THEN <<>> ELSE EscapeChar(Head(s)) \o EscapeChars(Tail(s))

Quoted(s) == <<QUOTE>> \o EscapeChars(s) \o <<QUOTE>>

NumberText(n) ==
  NatToChars(n.int) \o (IF n.frac = <<>> THEN <<>> ELSE <<".">> \o n.frac)

\* The line break and indentation before an item at depth cur.
Break(indent, cur) == IF indent > 0 THEN <<NL>> \o Spaces(cur) ELSE <<>>

RECURSIVE Stringify(_, _, _)
RECURSIVE StringifyItems(_, _, _, _)
RECURSIVE StringifyProps(_, _, _, _)

\* The elements from the i-th on, each on its own line at depth cur when
\* indent > 0, separated by commas.
StringifyItems(items, i, indent, cur) ==
  IF i > Len(items) THEN <<>>
  ELSE (IF i > 1 THEN <<",">> ELSE <<>>)
       \o Break(indent, cur)
       \o Stringify(items[i], indent, cur)
       \o StringifyItems(items, i + 1, indent, cur)

StringifyProps(props, i, indent, cur) ==
  IF i > Len(props) THEN <<>>
  ELSE (IF i > 1 THEN <<",">> ELSE <<>>)
       \o Break(indent, cur)
       \o Quoted(props[i].k) \o <<":">>
       \o (IF indent > 0 THEN <<" ">> ELSE <<>>)
       \o Stringify(props[i].v, indent, cur)
       \o StringifyProps(props, i + 1, indent, cur)

\* cur is the indentation of the line the value starts on.
Stringify(v, indent, cur) ==
  CASE v.t = "string" -> Quoted(v.s)
    [] v.t = "number" -> NumberText(v.n)
    [] v.t = "boolean" ->
         IF v.b THEN <<"t", "r", "u", "e">> ELSE <<"f", "a", "l", "s", "e">>
    [] v.t = "null" -> <<"n", "u", "l", "l">>
    [] v.t = "array" ->
         IF v.items = <<>> THEN <<"[", "]">>
         ELSE <<"[">> \o StringifyItems(v.items, 1, indent, cur + indent)
                \o Break(indent, cur) \o <<"]">>
    [] v.t = "object" ->
         IF v.props = <<>> THEN <<"{", "}">>
         ELSE <<"{">> \o StringifyProps(v.props, 1, indent, cur + indent)
                \o Break(indent, cur) \o <<"}">>

JSONStringify(v, indent) == Stringify(v, indent, 0)

(***************************************************************************)
(* Path segments: (string | number)[] in the code.                         *)
(***************************************************************************)
Key(s) == [key |-> s]
Idx(n) == [index |-> n]
IsIdx(seg) == "index" \in DOMAIN seg
IsKey(seg) == "key" \in DOMAIN seg

NaN == [nan |-> TRUE, n |-> 0]

\* The digits of s between indices b and e - 1 as a number, NaN when b = e.
DigitsBetween(s, b, e) ==
  IF e = b THEN NaN
  ELSE [nan |-> FALSE, n |-> DigitsToNat(SubSeq(s, b, e - 1), 0)]

\* parseInt(s, 10): the leading whitespace is skipped and the digits that
\* follow are read; NaN when there is none.  (No text of the model holds a
\* sign.)
ParseInt(s) ==
  With(SkipWs(s, 1), LAMBDA b : DigitsBetween(s, b, DigitsEnd(s, b)))

\* path.indexOf(c, from), 1-based; 0 when there is none.
IndexOfFrom(s, c, from) ==
  IF \E j \in from..Len(s) : s[j] = c
  THEN Min({j \in from..Len(s) : s[j] = c})
  ELSE 0

\* path.lastIndexOf(c), 1-based; 0 when there is none.
LastIndexOf(s, c) ==
  IF \E j \in 1..Len(s) : s[j] = c
  THEN Max({j \in 1..Len(s) : s[j] = c})
  ELSE 0

PushCurrent(parts, current) ==
  IF current # <<>> THEN Append(parts, Key(current)) ELSE parts

\* parts.push(index) unless index is NaN.
PushIndex(parts, index) ==
  IF ~index.nan THEN Append(parts, Idx(index.n)) ELSE parts

RECURSIVE ParsePathLoop(_, _, _, _)
ParsePathLoop(path, i, parts, current) ==
  IF i > Len(path) THEN PushCurrent(parts, current)
  ELSE IF path[i] = "."
    THEN ParsePathLoop(path, i + 1, PushCurrent(parts, current), <<>>)
  ELSE IF path[i] = "["
    THEN With(IndexOfFrom(path, "]", i), LAMBDA closeIndex :
           IF closeIndex # 0
           THEN ParsePathLoop(path, closeIndex + 1,
                  PushIndex(PushCurrent(parts, current),
                            ParseInt(SubSeq(path, i + 1, closeIndex - 1))),
                  <<>>)
           ELSE ParsePathLoop(path, i + 1, PushCurrent(parts, current), <<>>))
  ELSE ParsePathLoop(path, i + 1, parts, Append(current, path[i]))

ParsePathString(path) == ParsePathLoop(path, 1, <<>>, <<>>)

\* `${prevPath}.${lastSegment}[${segment}]`, where prevPath is pathStr up to
\* its last dot and lastSegment what follows it.
AttachIndex(pathStr, dot, suffix) ==
  IF SubSeq(pathStr, 1, dot - 1) # <<>>
  THEN SubSeq(pathStr, 1, dot - 1) \o <<".">>
       \o SubSeq(pathStr, dot + 1, Len(pathStr)) \o suffix
  ELSE SubSeq(pathStr, dot + 1, Len(pathStr)) \o suffix

\* One step of the loop that builds the path string from the segments:
\* pathStr after segment i, given pathStr before it.
FormatStep(pathSegments, i, pathStr) ==
  IF IsIdx(pathSegments[i])
  THEN IF i > 1 /\ IsKey(pathSegments[i - 1])
       THEN AttachIndex(pathStr, LastIndexOf(pathStr, "."),
              <<"[">> \o NatToChars(pathSegments[i].index) \o <<"]">>)
       ELSE pathStr \o <<"[">> \o NatToChars(pathSegments[i].index)
            \o <<"]">>
  ELSE (IF pathStr # <<>> THEN pathStr \o <<".">> ELSE <<>>)
       \o pathSegments[i].key

RECURSIVE FormatLoop(_, _, _)
FormatLoop(pathSegments, i, pathStr) ==
  IF i > Len(pathSegments) THEN pathStr
  ELSE FormatLoop(pathSegments, i + 1, FormatStep(pathSegments, i, pathStr))

FormatPath(pathSegments) == FormatLoop(pathSegments, 1, <<>>)

(***************************************************************************)
(* Property access on decoded values.  No key of the model's texts spells  *)
(* a property inherited from Object.prototype or Array.prototype, nor      *)
(* "length", so `part in current` is an own property or an array index.    *)
(***************************************************************************)
IsObjectLike(v) == v.t \in {"object", "array"}

\* part in current, for a string part
HasProp(current, part) ==
  IF current.t = "array"
  THEN IsIndexKey(part) /\ DigitsToNat(part, 0) < Len(current.items)
  ELSE KeyPos(current.props, part) # 0

\* current[part], for a string part with part in current
GetProp(current, part) ==
  IF current.t = "array" THEN current.items[DigitsToNat(part, 0) + 1]
  ELSE current.props[KeyPos(current.props, part)].v

\* current[key] = v, key a string; the path resolved, so on an array the
\* element exists.
SetProp(current, key, v) ==
  IF current.t = "array"
  THEN VArray([current.items EXCEPT ![DigitsToNat(key, 0) + 1] = v])
  ELSE VObject(PropPut(current.props, key, v))

NotFound == [found |-> FALSE]

RECURSIVE NestedLoop(_, _, _, _)
\* The loop of getNestedValue from part i on; keys collects String(part) of
\* the parts walked, which locates parent and key in the decoded document.
NestedLoop(current, parts, i, keys) ==
  IF i > Len(parts) THEN [found |-> TRUE, value |-> current, keys |-> keys]
  ELSE IF ~IsObjectLike(current) THEN NotFound
  ELSE IF IsIdx(parts[i])
    THEN IF current.t # "array" \/ parts[i].index < 0
            \/ parts[i].index >= Len(current.items)
         THEN NotFound
         ELSE NestedLoop(current.items[parts[i].index + 1], parts, i + 1,
                         Append(keys, NatToChars(parts[i].index)))
  ELSE IF ~HasProp(current, parts[i].key) THEN NotFound
  ELSE NestedLoop(GetProp(current, parts[i].key), parts, i + 1,
                  Append(keys, parts[i].key))

GetNestedValue(obj, path) ==
  With(ParsePathString(path), LAMBDA parts :
    IF Len(parts) = 0 THEN NotFound ELSE NestedLoop(obj, parts, 1, <<>>))

RECURSIVE AssignAt(_, _, _)
\* parent[key] = v, seen from the root of the decoded document: keys is the
\* chain of property names from the root to the field.
AssignAt(root, keys, v) ==
  IF Len(keys) = 1 THEN SetProp(root, keys[1], v)
  ELSE SetProp(root, keys[1], AssignAt(GetProp(root, keys[1]), Tail(keys), v))

RECURSIVE ValidateLoop(_, _, _)
\* Step 4 of buildAccuratePath: the walk that fetches the value.
ValidateLoop(currentValue, pathParts, i) ==
  IF i > Len(pathParts) THEN [found |-> TRUE, value |-> currentValue]
  ELSE IF IsIdx(pathParts[i])
    THEN IF currentValue.t # "array"
            \/ pathParts[i].index >= Len(currentValue.items)
         THEN NotFound
         ELSE ValidateLoop(currentValue.items[pathParts[i].index + 1],
                           pathParts, i + 1)
  ELSE IF ~IsObjectLike(currentValue)
          \/ ~HasProp(currentValue, pathParts[i].key)
    THEN NotFound
  ELSE ValidateLoop(GetProp(currentValue, pathParts[i].key), pathParts, i + 1)

(***************************************************************************)
(* jsonc-parser: findNodeAtOffset and findNodeAtLocation.  A node is named *)
(* by its address, the child positions from the root.                      *)
(***************************************************************************)
Contains(node, offset, includeRightBound) ==
  \/ offset >= node.offset /\ offset < node.offset + node.length
  \/ includeRightBound /\ offset = node.offset + node.length

RECURSIVE FindNodeAtOffset(_, _, _, _)
RECURSIVE FindInChildren(_, _, _, _, _)

FindInChildren(node, i, offset, includeRightBound, addr) ==
  IF i > Len(node.children) \/ node.children[i].offset > offset
  THEN [found |-> TRUE, addr |-> addr]
  ELSE With(FindNodeAtOffset(node.children[i], offset, includeRightBound,
                             Append(addr, i)), LAMBDA item :
         IF item.found THEN item
         ELSE FindInChildren(node, i + 1, offset, includeRightBound, addr))

FindNodeAtOffset(node, offset, includeRightBound, addr) ==
  IF Contains(node, offset, includeRightBound)
  THEN FindInChildren(node, 1, offset, includeRightBound, addr)
  ELSE NotFound

RECURSIVE NodeAt(_, _)
NodeAt(node, addr) ==
  IF addr = <<>> THEN node ELSE NodeAt(node.children[Head(addr)], Tail(addr))

\* The properties of an object node whose key is the given one.
PropertiesNamed(node, key) ==
  {i \in 1..Len(node.children) : node.children[i].children[1].value = key}

RECURSIVE FindNodeAtLocation(_, _)
FindNodeAtLocation(node, path) ==
  IF path = <<>> THEN [found |-> TRUE, node |-> node]
  ELSE IF IsKey(Head(path))
    THEN IF node.type # "object" \/ PropertiesNamed(node, Head(path).key) = {}
         THEN NotFound
         ELSE FindNodeAtLocation(
                node.children[Min(PropertiesNamed(node, Head(path).key))]
                    .children[2],
                Tail(path))
  ELSE IF node.type # "array" \/ Head(path).index < 0
          \/ Head(path).index >= Len(node.children)
    THEN NotFound
  ELSE FindNodeAtLocation(node.children[Head(path).index + 1], Tail(path))

(***************************************************************************)
(* The editor's text model: positions are (lineNumber, column), 1-based;   *)
(* lines end with "\n".                                                    *)
(***************************************************************************)
Position(line, column) == [lineNumber |-> line, column |-> column]

RECURSIVE LineStartFrom(_, _, _)
\* The offset at which the n-th line from offset o (itself a line start)
\* starts.
LineStartFrom(t, n, o) ==
  IF n = 1 THEN o ELSE LineStartFrom(t, n - 1, IndexOfFrom(t, NL, o + 1))

\* The offset at which line n starts (n in 1..LineCount).
LineStart(t, n) == LineStartFrom(t, n, 0)

LineCount(t) == Cardinality({j \in 1..Len(t) : t[j] = NL}) + 1

\* The offset of the end of the line that starts at offset start.
LineEndFrom(t, start) ==
  IF IndexOfFrom(t, NL, start + 1) = 0 THEN Len(t)
  ELSE IndexOfFrom(t, NL, start + 1) - 1

Clamp(x, lo, hi) == IF x < lo THEN lo ELSE IF x > hi THEN hi ELSE x

\* The offset of a column on the line that starts at offset start.
ColumnOffset(t, start, column) ==
  Clamp(start + column - 1, start, LineEndFrom(t, start))

\* model.getOffsetAt(position): the position is validated (clamped) first.
GetOffsetAt(t, position) ==
  IF position.lineNumber < 1 THEN 0
  ELSE IF position.lineNumber > LineCount(t)
    THEN LineEndFrom(t, LineStart(t, LineCount(t)))
  ELSE ColumnOffset(t, LineStart(t, position.lineNumber), position.column)

\* The position of offset o, given the offset at which its line starts.
PositionFrom(t, o, start) ==
  Position(Cardinality({j \in 1..o : t[j] = NL}) + 1, o - start + 1)

\* model.getPositionAt(offset): the offset is clamped to the text.
GetPositionAt(t, offset) ==
  With(Clamp(offset, 0, Len(t)), LAMBDA o :
    PositionFrom(t, o, IF \E j \in 1..o : t[j] = NL
                       THEN Max({j \in 1..o : t[j] = NL})
                       ELSE 0))

Positions(t) == {GetPositionAt(t, o) : o \in 0..Len(t)}

\* editor.executeEdits(source, [{ range, text }]) followed by
\* model.getValue().
ExecuteEdits(t, startPos, endPos, text) ==
  SubSeq(t, 1, GetOffsetAt(t, startPos)) \o text
  \o SubSeq(t, GetOffsetAt(t, endPos) + 1, Len(t))

(***************************************************************************)
(* getAccurateKeyPath                                                      *)
(***************************************************************************)
searchRadius == 20

\* The offsets probed after the exact one: offset-1 .. offset-20, then
\* offset+1 .. offset+20, in that order, those inside the text.
RECURSIVE ProbeBack(_, _, _)
ProbeBack(tree, offset, i) ==
  IF i > searchRadius THEN NotFound
  ELSE With(IF offset - i >= 0
            THEN FindNodeAtOffset(tree, offset - i, TRUE, <<>>)
            ELSE NotFound, LAMBDA r :
         IF r.found THEN r ELSE ProbeBack(tree, offset, i + 1))

RECURSIVE ProbeForward(_, _, _, _)
ProbeForward(tree, offset, i, len) ==
  IF i > searchRadius THEN NotFound
  ELSE With(IF offset + i < len
            THEN FindNodeAtOffset(tree, offset + i, TRUE, <<>>)
            ELSE NotFound, LAMBDA r :
         IF r.found THEN r ELSE ProbeForward(tree, offset, i + 1, len))

\* The window search, when the exact offset holds no node.
ProbeAround(tree, offset, len) ==
  With(ProbeBack(tree, offset, 1), LAMBDA back :
    IF back.found THEN back ELSE ProbeForward(tree, offset, 1, len))

\* Step 1: the node under the offset, or the first one in the window.
FindNodeNear(tree, offset, len) ==
  With(FindNodeAtOffset(tree, offset, TRUE, <<>>), LAMBDA exact :
    IF exact.found THEN exact ELSE ProbeAround(tree, offset, len))

RECURSIVE PathSegments(_, _)
\* Step 2, the walk from the target node up to the root, read from the
\* root down: node is the parent and Head(addr) the child under it.
PathSegments(node, addr) ==
  IF addr = <<>> THEN <<>>
  ELSE (IF node.type = "array" THEN <<Idx(Head(addr) - 1)>>
        ELSE IF node.type = "property" /\ node.children[1].type = "string"
          THEN <<Key(node.children[1].value)>>
        ELSE <<>>)
       \o PathSegments(node.children[Head(addr)], Tail(addr))

NoPath == [found |-> FALSE]

\* Steps 3 and 4: the path string and the value the walk along it fetches.
PathAndValue(jsonObj, pathStr) ==
  With(ValidateLoop(jsonObj, ParsePathString(pathStr), 1), LAMBDA r :
    IF r.found THEN [found |-> TRUE, path |-> pathStr, value |-> r.value]
    ELSE NoPath)

BuildAccuratePath(tree, jsonObj, addr) ==
  With(PathSegments(tree, addr), LAMBDA pathSegments :
    IF Len(pathSegments) = 0 THEN NoPath
    ELSE PathAndValue(jsonObj, FormatPath(pathSegments)))

\* The part of getAccurateKeyPath after the text parsed.
PathInTree(tree, offset, len) ==
  With(FindNodeNear(tree, offset, len), LAMBDA node :
    IF ~node.found THEN NoPath
    ELSE BuildAccuratePath(tree, Decode(tree), node.addr))

\* getAccurateKeyPath with a catch block that returns an empty path in
\* place of null.
GetAccurateKeyPathCatchingToEmpty(position, contentToParse) ==
  IF IsBlank(contentToParse) THEN NoPath
  ELSE With(ParseTree(contentToParse), LAMBDA parsed :
         IF ~parsed.ok THEN [found |-> TRUE, path |-> <<>>, value |-> VNull]
         ELSE PathInTree(parsed.tree, GetOffsetAt(contentToParse, position),
                         Len(contentToParse)))

GetAccurateKeyPath(position, contentToParse) ==
  IF IsBlank(contentToParse) THEN NoPath
  ELSE With(ParseTree(contentToParse), LAMBDA parsed :
         IF ~parsed.ok THEN NoPath
         ELSE PathInTree(parsed.tree, GetOffsetAt(contentToParse, position),
                         Len(contentToParse)))

(***************************************************************************)
(* applyValueReplace, handleExpandField, handleCompressField.  An outcome  *)
(* is what the handler did: kind "span" is the replacement of the value's  *)
(* source range, "whole" the rewrite of the whole document, any other kind *)
(* the error it set.  content is the editor text after the call.           *)
(***************************************************************************)
NoEdit == [applied |-> FALSE]

\* The edit of applyValueReplace on the node found; start and end are the
\* offsets of the value's range.
ReplaceRange(contentToUse, start, end, newText) ==
  [applied |-> TRUE,
   content |-> ExecuteEdits(contentToUse, GetPositionAt(contentToUse, start),
                            GetPositionAt(contentToUse, end), newText)]

ReplaceNode(found, newText, contentToUse) ==
  IF ~found.found THEN NoEdit
  ELSE ReplaceRange(contentToUse, found.node.offset,
                    found.node.offset + found.node.length, newText)

\* applyValueReplace with a locator that stops at the first segment of the
\* path.
ApplyValueReplaceAtFirstSegment(path, newText, contentToUse) ==
  With(ParseTree(contentToUse), LAMBDA parsed :
    IF ~parsed.ok \/ ParsePathString(path) = <<>> THEN NoEdit
    ELSE ReplaceNode(FindNodeAtLocation(parsed.tree,
                                        <<Head(ParsePathString(path))>>),
                     newText, contentToUse))

ApplyValueReplace(path, newText, contentToUse) ==
  With(ParseTree(contentToUse), LAMBDA parsed :
    IF ~parsed.ok THEN NoEdit
    ELSE ReplaceNode(FindNodeAtLocation(parsed.tree, ParsePathString(path)),
                     newText, contentToUse))

Failed(kind, contentToUse) ==
  [kind |-> kind, content |-> contentToUse, parsedJson |-> VNull]

\* What follows the edit of applyValueReplace: JSON.parse(newContent), whose
\* exception the caller's catch block reports as thrown.
AfterEdit(edit, thrown) ==
  With(JSONParse(edit.content), LAMBDA again :
    IF again.ok
    THEN [kind |-> "span", content |-> edit.content,
          parsedJson |-> again.value]
    ELSE Failed(thrown, edit.content))

\* The tail as the component's previous version had it: the whole document
\* is serialised again from the mutated currentJson, whatever the locator
\* finds.
RewriteAlways(path, newText, contentToUse, currentJson, indent, thrown) ==
  [kind |-> IF ApplyValueReplace(path, newText, contentToUse).applied
            THEN "span" ELSE "whole",
   content |-> JSONStringify(currentJson, indent),
   parsedJson |-> currentJson]

\* The tail shared by both handlers: the span replacement, and the rewrite
\* of the whole document from the mutated currentJson when it is refused.
ReplaceOrRewrite(path, newText, contentToUse, currentJson, indent, thrown) ==
  With(ApplyValueReplace(path, newText, contentToUse), LAMBDA edit :
    IF edit.applied THEN AfterEdit(edit, thrown)
    ELSE [kind |-> "whole", content |-> JSONStringify(currentJson, indent),
          parsedJson |-> currentJson])

\* handleExpandField once the field is a string whose text parsed.
ExpandString(path, contentToUse, indent, currentJson, keys, parsed) ==
  ReplaceOrRewrite(path, JSONStringify(parsed, indent), contentToUse,
                   AssignAt(currentJson, keys, parsed), indent,
                   "EmbeddedParseError")

\* The text after a replacement made without looking at what it gives.
Replaced(edit, contentToUse) ==
  IF edit.applied THEN edit.content ELSE contentToUse

\* handleExpandField writing the string's content into the text before it
\* knows that the content is JSON.
ExpandFieldUnchecked(path, contentToUse, indent, currentJson, fieldInfo) ==
  IF TypeOf(fieldInfo.value) # "string"
  THEN Failed("TypeMismatch", contentToUse)
  ELSE With(JSONParse(fieldInfo.value.s), LAMBDA inner :
         IF ~inner.ok
         THEN Failed("EmbeddedParseError",
                     Replaced(ApplyValueReplace(path, fieldInfo.value.s,
                                                contentToUse), contentToUse))
         ELSE ExpandString(path, contentToUse, indent, currentJson,
                           fieldInfo.keys, inner.value))

\* handleExpandField once the path resolved.
ExpandField(path, contentToUse, indent, currentJson, fieldInfo) ==
  IF TypeOf(fieldInfo.value) # "string"
  THEN Failed("TypeMismatch", contentToUse)
  ELSE With(JSONParse(fieldInfo.value.s), LAMBDA inner :
         IF ~inner.ok THEN Failed("EmbeddedParseError", contentToUse)
         ELSE ExpandString(path, contentToUse, indent, currentJson,
                           fieldInfo.keys, inner.value))

\* handleCompressField once the field is an object or an array.
CompressValue(path, contentToUse, indent, currentJson, keys, stringified) ==
  ReplaceOrRewrite(path, Quoted(stringified), contentToUse,
                   AssignAt(currentJson, keys, VString(stringified)), indent,
                   "StringifyError")

\* handleCompressField without `value !== null`: typeof null is "object".
CompressNullAsObject(path, contentToUse, indent, currentJson, fieldInfo) ==
  IF TypeOf(fieldInfo.value) # "object"
  THEN Failed("TypeMismatch", contentToUse)
  ELSE CompressValue(path, contentToUse, indent, currentJson, fieldInfo.keys,
                     JSONStringify(fieldInfo.value, 0))

\* handleCompressField once the path resolved.
CompressField(path, contentToUse, indent, currentJson, fieldInfo) ==
  IF ~(TypeOf(fieldInfo.value) = "object" /\ fieldInfo.value # VNull)
  THEN Failed("TypeMismatch", contentToUse)
  ELSE CompressValue(path, contentToUse, indent, currentJson, fieldInfo.keys,
                     JSONStringify(fieldInfo.value, 0))

HandleExpandField(path, contentToUse, indent) ==
  IF IsBlank(contentToUse) THEN Failed("NoContent", contentToUse)
  ELSE With(JSONParse(contentToUse), LAMBDA doc :
    IF ~doc.ok THEN Failed("ParseError", contentToUse)
    ELSE With(GetNestedValue(doc.value, path), LAMBDA fieldInfo :
      IF ~fieldInfo.found THEN Failed("PathNotFound", contentToUse)
      ELSE ExpandField(path, contentToUse, indent, doc.value, fieldInfo)))

HandleCompressField(path, contentToUse, indent) ==
  IF IsBlank(contentToUse) THEN Failed("NoContent", contentToUse)
  ELSE With(JSONParse(contentToUse), LAMBDA doc :
    IF ~doc.ok THEN Failed("ParseError", contentToUse)
    ELSE With(GetNestedValue(doc.value, path), LAMBDA fieldInfo :
      IF ~fieldInfo.found THEN Failed("PathNotFound", contentToUse)
      ELSE CompressField(path, contentToUse, indent, doc.value, fieldInfo)))

IsError(kind) == kind \notin {"span", "whole"}

\* validateJson without the test for a blank text.
ValidateJsonOfBlank(jsonString) ==
  With(JSONParse(jsonString), LAMBDA doc :
    IF doc.ok THEN [error |-> "none", parsedJson |-> doc.value]
    ELSE [error |-> "Invalid", parsedJson |-> VNull])

\* validateJson(jsonString): the error and parsedJson it sets.
ValidateJson(jsonString) ==
  IF IsBlank(jsonString) THEN [error |-> "none", parsedJson |-> VNull]
  ELSE With(JSONParse(jsonString), LAMBDA doc :
         IF doc.ok THEN [error |-> "none", parsedJson |-> doc.value]
         ELSE [error |-> "Invalid", parsedJson |-> VNull])

\* The body of handleFormat and handleMinify: done is FALSE where the
\* handler returns early or catches the SyntaxError.
Reformatted(text, indent) ==
  IF IsBlank(text) THEN [done |-> FALSE]
  ELSE With(JSONParse(text), LAMBDA doc :
         IF doc.ok
         THEN [done |-> TRUE, content |-> JSONStringify(doc.value, indent),
               parsedJson |-> doc.value]
         ELSE [done |-> FALSE])

(***************************************************************************)
(* The texts the user types, pastes or loads.                              *)
(***************************************************************************)
\* {"a":"{\"b\":1}"}: the document of the first example
DocEmbedded ==
  <<"{", "\"", "a", "\"", ":", "\"", "{", "\\", "\"", "b", "\\", "\"", ":",
    "1", "}", "\"", "}">>

\* {"a":1,"a":"[]"}: a repeated key, the last value a string
DocDuplicate ==
  <<"{", "\"", "a", "\"", ":", "1", ",", "\"", "a", "\"", ":", "\"", "[", "]",
    "\"", "}">>

\* {"a":"1","a":[]}: a repeated key, the last value an array
DocDuplicateArray ==
  <<"{", "\"", "a", "\"", ":", "\"", "1", "\"", ",", "\"", "a", "\"", ":", "[",
    "]", "}">>

\* {"a.0":1,"a":["[1.0]"]}: a key holding a dot, beside the array it names
DocDotted ==
  <<"{", "\"", "a", ".", "0", "\"", ":", "1", ",", "\"", "a", "\"", ":", "[",
    "\"", "[", "1", ".", "0", "]", "\"", "]", "}">>

\* [ {"":"2"}(newline),[3]]: an array at the root over two lines, an empty
\* key, a string holding a scalar
DocArray ==
  <<"[", " ", "{", "\"", "\"", ":", "\"", "2", "\"", "}", "\n", ",", "[", "3",
    "]", "]">>

\* {"a":"{"}: a string that holds no JSON
DocBroken ==
  <<"{", "\"", "a", "\"", ":", "\"", "{", "\"", "}">>

\* {"b":{"c":[null,true]},"d":"\"x\""}: nesting, literals, a string holding
\* a string
DocNested ==
  <<"{", "\"", "b", "\"", ":", "{", "\"", "c", "\"", ":", "[", "n", "u", "l",
    "l", ",", "t", "r", "u", "e", "]", "}", ",", "\"", "d", "\"", ":", "\"",
    "\\", "\"", "x", "\\", "\"", "\"", "}">>

\* "[1]": a string at the root
DocRootString ==
  <<"\"", "[", "1", "]", "\"">>

\* [1,]: a trailing comma, not JSON
DocInvalid ==
  <<"[", "1", ",", "]">>

DocEmpty == <<>>

\* {"rows":[{"x":1},{"x":2}]}: the document of the second example
DocRows ==
  <<"{", "\"", "r", "o", "w", "s", "\"", ":", "[", "{", "\"", "x", "\"", ":",
    "1", "}", ",", "{", "\"", "x", "\"", ":", "2", "}", "]", "}">>

\* {"a":1 with the closing brace missing, not JSON
DocUnclosed ==
  <<"{", "\"", "a", "\"", ":", "1">>

\* (space){"a":1}(newline): white space before and after the value
DocPadded ==
  <<" ", "{", "\"", "a", "\"", ":", "1", "}", "\n">>

\* {"a":{"b": 1}}: a space between the colon and the value
DocSpaced ==
  <<"{", "\"", "a", "\"", ":", "{", "\"", "b", "\"", ":", " ", "1", "}", "}">>

\* {"a.0":[[1]]}: arrays in an array under a key holding a dot
DocDottedMatrix ==
  <<"{", "\"", "a", ".", "0", "\"", ":", "[", "[", "1", "]", "]", "}">>

\* {"m":[[10,20],[30,40]]}: the document of the third example
DocMatrix ==
  <<"{", "\"", "m", "\"", ":", "[", "[", "1", "0", ",", "2", "0", "]", ",",
    "[", "3", "0", ",", "4", "0", "]", "]", "}">>

\* The texts of a session in the editor.
Pool == {DocEmbedded, DocDotted, DocInvalid, DocEmpty}

\* The texts handed to the handlers one call at a time.
ApiPool ==
  {DocEmbedded, DocDuplicate, DocDuplicateArray, DocDotted, DocArray,
   DocBroken, DocNested, DocRootString, DocInvalid, DocEmpty, DocRows,
   DocDottedMatrix, DocMatrix, DocUnclosed, DocPadded, DocSpaced}

\* The paths handed to the handlers beside those of the text's own nodes:
\* x (no such key), a.0, [0].b
PathPool ==
  {<<"x">>, <<"a", ".", "0">>, <<"[", "0", "]", ".", "b">>}

\* The options of the indent selector.
IndentSizes == {2, 4, 8}

RECURSIVE Addresses(_, _)
\* The addresses of the value nodes at and under a node (the nodes that are
\* neither a property nor its key).
Addresses(node, addr) ==
  IF node.type = "property" THEN Addresses(node.children[2], Append(addr, 2))
  ELSE {addr} \cup UNION {Addresses(node.children[i], Append(addr, i)) :
                            i \in 1..Len(node.children)}

\* The path strings the resolver builds for the value nodes of a text.
NodePaths(t) ==
  With(ParseTree(t), LAMBDA parsed :
    IF ~parsed.ok THEN {}
    ELSE {FormatPath(PathSegments(parsed.tree, addr)) :
            addr \in Addresses(parsed.tree, <<>>)})

(***************************************************************************)
(* The component's state.                                                  *)
(***************************************************************************)
VARIABLES
  content,                \* useState: the text, which the editor shows
  error,                  \* useState: "none" for null, else the error set
  parsedJson,             \* useState: the decoded document, VNull for null
  isValidating,           \* useState: a validation timer is pending
  indentSize,             \* useState: the indent selector
  showMarkdown,           \* useState: the preview replaces the editor
  mountIndent,            \* indentSize in the closures the mounted editor's
                          \* actions captured
  lastDetectedPathRef,    \* useRef: {path, value} or null (found = FALSE)
  contextMenuPositionRef, \* useRef: a position or null (set = FALSE)
  menu,                   \* the context menu: open or not, which of the two
                          \* items it displays, an update of it pending
  last,                   \* the handler that ran last and what it did
  steps,                  \* handlers run so far
  given,                  \* the path argument of the handlers called directly
  calls,                  \* the direct calls of the handlers so far
  probe,                  \* the last direct call of the resolver or of the
                          \* path formatter
  history,                \* HistoryService.history: the items, in the order
                          \* they were pushed
  now,                    \* Date.now() at the last call of the service
  file                    \* HistoryService.filePath (path: set or null) and
                          \* the items history.json holds (data)

vars ==
  <<content, error, parsedJson, isValidating, indentSize, showMarkdown,
    mountIndent, lastDetectedPathRef, contextMenuPositionRef, menu, last,
    steps, given, calls, probe, history, now, file>>

\* The variables of the direct calls.
apiVars == <<given, calls, probe>>

\* The variables of the history service.
serviceVars == <<history, now, file>>

\* The history service after construction.
NoHistory ==
  /\ history = <<>>
  /\ now = 0
  /\ file = [path |-> FALSE, data |-> <<>>]

MaxSteps == 3

MaxCalls == 2

NoPosition == [set |-> FALSE]

NoProbe == [op |-> "none"]

\* No context menu is open and no update of one is pending.
NoMenu == [open |-> FALSE, expand |-> FALSE, compress |-> FALSE,
           timer |-> FALSE]

\* The context menu once dismissed; a pending update stays pending.
Dismissed == [NoMenu EXCEPT !.timer = menu.timer]

Did(op, kind, path) == [op |-> op, kind |-> kind, path |-> path]

Step == steps < MaxSteps /\ steps' = steps + 1

\* The component after construction, initialContent being any text.
Mounted ==
  /\ error = "none"
  /\ parsedJson = VNull
  /\ isValidating = FALSE
  /\ indentSize = 2
  /\ showMarkdown = FALSE
  /\ mountIndent = 2
  /\ lastDetectedPathRef = NoPath
  /\ contextMenuPositionRef = NoPosition
  /\ menu = NoMenu
  /\ last = Did("init", "none", <<>>)
  /\ steps = 0
  /\ calls = <<>>
  /\ probe = NoProbe

Init ==
  /\ content \in Pool
  /\ given = <<>>
  /\ Mounted
  /\ NoHistory

\* onChange of the editor: typing or pasting replaces the text.
HandleContentChange(value) ==
  /\ Step
  /\ ~showMarkdown
  /\ value # content
  /\ content' = value
  /\ isValidating' = TRUE
  /\ last' = Did("change", "none", <<>>)
  /\ UNCHANGED <<error, parsedJson, indentSize, showMarkdown, mountIndent,
                 lastDetectedPathRef, contextMenuPositionRef>>
  /\ menu' = Dismissed
  /\ UNCHANGED <<apiVars, serviceVars>>

\* The 500 ms timer of the validation effect fires.
ValidationTimer ==
  /\ isValidating
  /\ UNCHANGED steps
  /\ error' = ValidateJson(content).error
  /\ parsedJson' = ValidateJson(content).parsedJson
  /\ isValidating' = FALSE
  /\ last' = Did("validate", "none", <<>>)
  /\ UNCHANGED <<content, indentSize, showMarkdown, mountIndent,
                 lastDetectedPathRef, contextMenuPositionRef>>
  /\ UNCHANGED menu
  /\ UNCHANGED <<apiVars, serviceVars>>

\* What handleFormat (op "format") and handleMinify (op "minify") set.
Reformat(op, result) ==
  /\ IF result.done
     THEN /\ content' = result.content
          /\ parsedJson' = result.parsedJson
          /\ error' = "none"
          /\ last' = Did(op, "whole", <<>>)
     ELSE /\ UNCHANGED <<content, parsedJson, error>>
          /\ last' = Did(op, "none", <<>>)
  /\ UNCHANGED <<isValidating, indentSize, showMarkdown, mountIndent,
                 lastDetectedPathRef, contextMenuPositionRef>>

HandleFormat ==
  /\ Step
  /\ Reformat("format", Reformatted(content, indentSize))
  /\ menu' = Dismissed
  /\ UNCHANGED <<apiVars, serviceVars>>

HandleMinify ==
  /\ Step
  /\ Reformat("minify", Reformatted(content, 0))
  /\ menu' = Dismissed
  /\ UNCHANGED <<apiVars, serviceVars>>

\* clearContent of the imperative handle.
ClearContent ==
  /\ Step
  /\ content' = <<>>
  /\ error' = "none"
  /\ last' = Did("clear", "none", <<>>)
  /\ UNCHANGED <<parsedJson, isValidating, indentSize, showMarkdown,
                 mountIndent, lastDetectedPathRef, contextMenuPositionRef>>
  /\ UNCHANGED menu
  /\ UNCHANGED <<apiVars, serviceVars>>

\* The effect on the initialContent prop: a new, non-empty value is loaded.
LoadInitialContent(initialContent) ==
  /\ Step
  /\ initialContent # <<>>
  /\ content' = initialContent
  /\ last' = Did("load", "none", <<>>)
  /\ UNCHANGED <<error, parsedJson, isValidating, indentSize, showMarkdown,
                 mountIndent, lastDetectedPathRef, contextMenuPositionRef>>
  /\ UNCHANGED menu
  /\ UNCHANGED <<apiVars, serviceVars>>

SetIndentSize(n) ==
  /\ Step
  /\ n # indentSize
  /\ indentSize' = n
  /\ last' = Did("indent", "none", <<>>)
  /\ UNCHANGED <<content, error, parsedJson, isValidating, showMarkdown,
                 mountIndent, lastDetectedPathRef, contextMenuPositionRef>>
  /\ menu' = Dismissed
  /\ UNCHANGED <<apiVars, serviceVars>>

\* The preview toggle: the editor is unmounted while the preview shows, and
\* mounted anew (onMount runs with the closures of that render) when it
\* goes.
ToggleMarkdown ==
  /\ Step
  /\ showMarkdown' = ~showMarkdown
  /\ mountIndent' = IF showMarkdown THEN indentSize ELSE mountIndent
  /\ last' = Did("toggle", "none", <<>>)
  /\ UNCHANGED <<content, error, parsedJson, isValidating, indentSize,
                 lastDetectedPathRef, contextMenuPositionRef>>
  /\ menu' = Dismissed
  /\ UNCHANGED <<apiVars, serviceVars>>

\* The context menu as the editor opens it: both actions were added without
\* a precondition, so both items are displayed; updateMenuVisibility is
\* scheduled (100 ms) only when the detection gave a result.
Opened(result) ==
  [open |-> TRUE, expand |-> TRUE, compress |-> TRUE,
   timer |-> menu.timer \/ result.found]

\* The display updateMenuVisibility gives the two items, from the cached
\* path and value.
MenuVisibility(detected) ==
  [open |-> TRUE,
   expand |-> detected.found /\ TypeOf(detected.value) = "string",
   compress |-> /\ detected.found
                /\ TypeOf(detected.value) = "object"
                /\ detected.value # VNull,
   timer |-> FALSE]

\* The timer of updateMenuVisibility fires: tryUpdate sets the display of
\* the two items of the open menu, and gives up after its attempts when no
\* menu is open.
UpdateMenuVisibility ==
  /\ Step
  /\ menu.timer
  /\ menu' = IF menu.open THEN MenuVisibility(lastDetectedPathRef)
             ELSE NoMenu
  /\ last' = Did("menu", "none", <<>>)
  /\ UNCHANGED <<content, error, parsedJson, isValidating, indentSize,
                 showMarkdown, mountIndent, lastDetectedPathRef,
                 contextMenuPositionRef>>
  /\ UNCHANGED <<apiVars, serviceVars>>

\* onMouseDown / onMouseUp with the right button at a position of the text.
RightClick(position) ==
  /\ Step
  /\ ~showMarkdown
  /\ contextMenuPositionRef' = [set |-> TRUE, position |-> position]
  /\ lastDetectedPathRef' = GetAccurateKeyPath(position, content)
  /\ menu' = Opened(GetAccurateKeyPath(position, content))
  /\ last' = Did("detect", "none", <<>>)
  /\ UNCHANGED <<content, error, parsedJson, isValidating, indentSize,
                 showMarkdown, mountIndent>>
  /\ UNCHANGED <<apiVars, serviceVars>>

\* What a handler's outcome does to the state.  The span edit goes through
\* the editor, whose onChange runs handleContentChange; the rewrite goes
\* through the value prop, which raises no onChange.
Apply(op, path, outcome) ==
  /\ content' = outcome.content
  /\ last' = Did(op, outcome.kind, path)
  /\ IF IsError(outcome.kind)
     THEN /\ error' = outcome.kind
          /\ UNCHANGED <<parsedJson, lastDetectedPathRef>>
     ELSE /\ error' = "none"
          /\ parsedJson' = outcome.parsedJson
          /\ lastDetectedPathRef' = NoPath
  /\ isValidating' = (isValidating \/ outcome.content # content)
  /\ UNCHANGED <<indentSize, showMarkdown, mountIndent,
                 contextMenuPositionRef>>

Handle(op, path, text, indent) ==
  IF op = "expand" THEN HandleExpandField(path, text, indent)
  ELSE HandleCompressField(path, text, indent)

\* The run of an editor action once the path is known: result is the cached
\* path or the one detected now.
RunWith(op, result) ==
  IF IsBlank(content) THEN Apply(op, <<>>, Failed("EditorEmpty", content))
  ELSE IF result.found
    THEN Apply(op, result.path,
               Handle(op, result.path, content, mountIndent))
  ELSE Apply(op, <<>>, Failed("PathNotDetected", content))

\* run of the editor actions expand-json-field and compress-json-field.
RunAction(op) ==
  IF lastDetectedPathRef.found
  THEN RunWith(op, lastDetectedPathRef)
  ELSE IF contextMenuPositionRef.set
    THEN RunWith(op, GetAccurateKeyPath(contextMenuPositionRef.position,
                                        content))
  ELSE \E position \in Positions(content) :
         RunWith(op, GetAccurateKeyPath(position, content))

TriggerExpand ==
  /\ Step
  /\ ~showMarkdown
  /\ RunAction("expand")
  /\ menu' = Dismissed
  /\ UNCHANGED <<apiVars, serviceVars>>

TriggerCompress ==
  /\ Step
  /\ ~showMarkdown
  /\ RunAction("compress")
  /\ menu' = Dismissed
  /\ UNCHANGED <<apiVars, serviceVars>>

Next ==
  \/ \E value \in Pool : HandleContentChange(value)
  \/ ValidationTimer
  \/ HandleFormat
  \/ HandleMinify
  \/ ClearContent
  \/ \E value \in Pool : LoadInitialContent(value)
  \/ \E n \in IndentSizes : SetIndentSize(n)
  \/ ToggleMarkdown
  \/ \E position \in Positions(content) : RightClick(position)
  \/ UpdateMenuVisibility
  \/ TriggerExpand
  \/ TriggerCompress

Spec == Init /\ [][Next]_vars

(***************************************************************************)
(* The same session on short texts, with the scheduling of the validation  *)
(* effect: its timer is pending as long as isValidating is set (the effect *)
(* starts one on every render where it is, and clears the one before), and *)
(* a pending timer fires after 500 ms.                                     *)
(***************************************************************************)
\* [
DocOpen == <<"[">>

\* [1]
DocOne == <<"[", "1", "]">>

\* ["1"]
DocQuoted == <<"[", QUOTE, "1", QUOTE, "]">>

EditPool == {DocEmpty, DocOpen, DocOne, DocQuoted}

InitEdit ==
  /\ content \in EditPool
  /\ given = <<>>
  /\ Mounted
  /\ NoHistory

NextEdit ==
  \/ \E value \in EditPool : HandleContentChange(value)
  \/ ValidationTimer
  \/ HandleFormat
  \/ HandleMinify
  \/ ClearContent
  \/ \E value \in EditPool : LoadInitialContent(value)
  \/ \E n \in IndentSizes : SetIndentSize(n)
  \/ ToggleMarkdown
  \/ \E position \in Positions(content) : RightClick(position)
  \/ UpdateMenuVisibility
  \/ TriggerExpand
  \/ TriggerCompress

SpecEdit == InitEdit /\ [][NextEdit]_vars /\ WF_vars(ValidationTimer)

(***************************************************************************)
(* The handlers called directly: a text, a path and an indent are drawn,   *)
(* and handleExpandField, handleCompressField, getAccurateKeyPath and the  *)
(* path formatter are applied to them: the resolver and the formatter     *)
(* once, on the text drawn, or the mutations one after the other, each on  *)
(* the text the one before left.  calls keeps what each mutation got and   *)
(* gave.                                                                   *)
(***************************************************************************)
InitApi ==
  /\ content \in ApiPool
  /\ given \in NodePaths(content) \cup PathPool
  /\ indentSize \in IndentSizes
  /\ mountIndent = indentSize
  /\ error = "none"
  /\ parsedJson = VNull
  /\ isValidating = FALSE
  /\ showMarkdown = FALSE
  /\ lastDetectedPathRef = NoPath
  /\ contextMenuPositionRef = NoPosition
  /\ menu = NoMenu
  /\ last = Did("init", "none", <<>>)
  /\ steps = 0
  /\ calls = <<>>
  /\ probe = NoProbe
  /\ NoHistory

Called(op, kind, before, after) ==
  [op |-> op, kind |-> kind, before |-> before, after |-> after]

ApiCall(op) ==
  /\ Len(calls) < MaxCalls
  /\ probe = NoProbe
  /\ Apply(op, given, Handle(op, given, content, indentSize))
  /\ calls' = Append(calls, Called(op, last'.kind, content, content'))
  /\ UNCHANGED <<menu, steps, given, probe, history, now, file>>

\* handleExpandField(given, content)
ApiExpand ==
  /\ ApiCall("expand")

\* handleCompressField(given, content)
ApiCompress ==
  /\ ApiCall("compress")

\* getAccurateKeyPath(editor, position, content) on the text drawn
ApiResolve(position) ==
  /\ calls = <<>>
  /\ probe = NoProbe
  /\ probe' = [op |-> "resolve", offset |-> GetOffsetAt(content, position),
               result |-> GetAccurateKeyPath(position, content)]
  /\ UNCHANGED <<content, error, parsedJson, isValidating, indentSize,
                 showMarkdown, mountIndent, lastDetectedPathRef,
                 contextMenuPositionRef, menu, last, steps, given, calls,
                 history, now, file>>

\* The addresses of the value nodes of a text, none when it does not parse.
ValueAddresses(t) ==
  With(ParseTree(t), LAMBDA parsed :
    IF parsed.ok THEN Addresses(parsed.tree, <<>>) ELSE {})

\* The path string built from the segments and what parsePathString makes
\* of it.
PathProbe(pathSegments) ==
  [op |-> "path", segments |-> pathSegments,
   parts |-> ParsePathString(FormatPath(pathSegments))]

\* Steps 2 and 3 of buildAccuratePath on the node at addr, then
\* parsePathString.
ApiFormatPath(addr) ==
  /\ calls = <<>>
  /\ probe = NoProbe
  /\ probe' = PathProbe(PathSegments(ParseTree(content).tree, addr))
  /\ UNCHANGED <<content, error, parsedJson, isValidating, indentSize,
                 showMarkdown, mountIndent, lastDetectedPathRef,
                 contextMenuPositionRef, menu, last, steps, given, calls,
                 history, now, file>>

NextApi ==
  \/ ApiExpand
  \/ ApiCompress
  \/ \E position \in Positions(content) : ApiResolve(position)
  \/ \E addr \in ValueAddresses(content) : ApiFormatPath(addr)

SpecApi == InitApi /\ [][NextApi]_vars

(***************************************************************************)
(* The quote search of the earlier resolver, getKeyPathAtPosition, which   *)
(* scans the line of the cursor.  Indices into the line count from 0, as   *)
(* in the code.                                                            *)
(***************************************************************************)
MaxLine == 4

\* lineContent[i], EOF for undefined
CharAt(lineContent, i) == At(lineContent, i + 1)

RECURSIVE EscapeCount(_, _)
\* The backslashes counted by the while loop from j down.
EscapeCount(lineContent, j) ==
  IF j >= 0 /\ CharAt(lineContent, j) = BSL
  THEN 1 + EscapeCount(lineContent, j - 1)
  ELSE 0

RECURSIVE QuoteLeftAnyParity(_, _)
\* The for loop with the escape test reduced to the character before the
\* quote: a quote counts unless a backslash precedes it.
QuoteLeftAnyParity(lineContent, i) ==
  IF i < 0 THEN -1
  ELSE IF CharAt(lineContent, i) = QUOTE /\ CharAt(lineContent, i - 1) # BSL
    THEN i
  ELSE QuoteLeftAnyParity(lineContent, i - 1)

RECURSIVE QuoteLeft(_, _)
\* The for loop from i down to 0: the index of the first quote preceded by
\* an even number of backslashes, -1 when the loop ends without one.
QuoteLeft(lineContent, i) ==
  IF i < 0 THEN -1
  ELSE IF /\ CharAt(lineContent, i) = QUOTE
          /\ EscapeCount(lineContent, i - 1) % 2 = 0
    THEN i
  ELSE QuoteLeft(lineContent, i - 1)

\* return null
NoKey == [found |-> FALSE]

\* The key between the two quotes, null for an empty one.
KeyBetween(lineContent, keyStartQuote, keyEndQuote) ==
  IF keyStartQuote < 0 \/ keyStartQuote >= keyEndQuote THEN NoKey
  ELSE IF keyStartQuote + 1 = keyEndQuote THEN NoKey
  ELSE [found |-> TRUE, keyStartQuote |-> keyStartQuote,
        keyEndQuote |-> keyEndQuote,
        key |-> SubSeq(lineContent, keyStartQuote + 2, keyEndQuote)]

\* The search for the quotes of the key, from the cursor's offset in the
\* line.
QuoteSearch(lineContent, offset) ==
  With(QuoteLeft(lineContent, offset), LAMBDA keyEndQuote :
    IF keyEndQuote < 0 THEN NoKey
    ELSE KeyBetween(lineContent, QuoteLeft(lineContent, keyEndQuote - 1),
                    keyEndQuote))

RECURSIVE LinesUpTo(_)
\* The lines of at most n characters over quote, backslash and a letter.
LinesUpTo(n) ==
  IF n = 0 THEN {<<>>}
  ELSE LinesUpTo(n - 1)
       \cup {Append(line, c) : line \in LinesUpTo(n - 1),
                                 c \in {QUOTE, BSL, "a"}}

\* A line of the editor is drawn; nothing else is used.
InitScan ==
  /\ content \in LinesUpTo(MaxLine)
  /\ given = <<>>
  /\ Mounted
  /\ NoHistory

\* The quote search at a column of the line.
ScanLine(column) ==
  /\ probe = NoProbe
  /\ probe' = [op |-> "scan", offset |-> column - 1,
               result |-> QuoteSearch(content, column - 1)]
  /\ UNCHANGED <<content, error, parsedJson, isValidating, indentSize,
                 showMarkdown, mountIndent, lastDetectedPathRef,
                 contextMenuPositionRef, menu, last, steps, given, calls,
                 history, now, file>>

NextScan == \E column \in 1..(Len(content) + 1) : ScanLine(column)

SpecScan == InitScan /\ [][NextScan]_vars

(***************************************************************************)
(* HistoryService: add, delete and clear on the array of items.  An item   *)
(* is its id, its toolId and its timestamp; content and summary are        *)
(* carried along and never read by the service.  The id is Date.now()      *)
(* followed by nine random characters: two items made in one millisecond   *)
(* are taken to differ in them.  history.json holds the items an earlier   *)
(* run of adds left; the service has loaded them (init) or not yet, and    *)
(* MaxOps calls are made.                                                  *)
(***************************************************************************)
MaxOps == 3

Tools == {"json-editor", "diff"}

\* Math.random().toString(36).substr(2, 9)
Random == {0, 1}

HistoryItem(id, toolId, timestamp) ==
  [id |-> id, toolId |-> toolId, timestamp |-> timestamp]

\* The places of the items that array.sort((a, b) => b.timestamp -
\* a.timestamp) puts before the one at place i: the sort is stable.
Before(array, i) ==
  {j \in DOMAIN array :
     \/ array[j].timestamp > array[i].timestamp
     \/ array[j].timestamp = array[i].timestamp /\ j < i}

Ranked(array, rank) ==
  [k \in DOMAIN array |-> array[CHOOSE i \in DOMAIN array : rank[i] = k - 1]]

SortByTimestamp(array) ==
  Ranked(array, [i \in DOMAIN array |-> Cardinality(Before(array, i))])

\* getHistory that sorts the items of all tools.
GetHistoryOfAllTools(items, toolId) ==
  SortByTimestamp(items)

GetHistory(items, toolId) ==
  SortByTimestamp(SelectSeq(items, LAMBDA item : item.toolId = toolId))

\* array.slice(start).map(h => h.id)
IdsFrom(array, start) ==
  {array[i].id : i \in (start + 1)..Len(array)}

\* The array add leaves before it pushes the new item.
Without(items, idsToRemove) ==
  SelectSeq(items, LAMBDA h : h.id \notin idsToRemove)

Pruned(items, toolId) ==
  With(GetHistory(items, toolId), LAMBDA toolHistory :
    IF Len(toolHistory) >= 50
    THEN Without(items, IdsFrom(toolHistory, 49))
    ELSE items)

Ids(items) == {items[i].id : i \in DOMAIN items}

\* The array n adds leave, one a millisecond, every seventh of them for
\* the second tool.
Older(n) ==
  [i \in 1..n |->
    HistoryItem(<<i, 0>>, IF i % 7 = 0 THEN "diff" ELSE "json-editor", i)]

InitHistory ==
  /\ content = <<>>
  /\ given = <<>>
  /\ Mounted
  /\ now \in {0, 57, 58}
  /\ file \in [path : BOOLEAN, data : {Older(now)}]
  /\ history = IF file.path THEN file.data ELSE <<>>

Op == steps < MaxOps /\ steps' = steps + 1

HistoryOnly ==
  UNCHANGED <<content, error, parsedJson, isValidating, indentSize,
              showMarkdown, mountIndent, lastDetectedPathRef,
              contextMenuPositionRef, menu, given, calls, probe>>

\* save() of the array a call leaves
Saved(items) == IF file.path THEN [file EXCEPT !.data = items] ELSE file

\* init(): the path is set and history.json is loaded, once.
InitService ==
  /\ Op
  /\ ~file.path
  /\ file' = [file EXCEPT !.path = TRUE]
  /\ history' = file.data
  /\ last' = [op |-> "init"]
  /\ HistoryOnly
  /\ UNCHANGED now

\* add(toolId, content), r the random part of the id
Add(toolId, r) ==
  /\ Op
  /\ now' \in {now, now + 1}
  /\ <<now', r>> \notin Ids(history)
  /\ history' = Append(Pruned(history, toolId),
                       HistoryItem(<<now', r>>, toolId, now'))
  /\ file' = Saved(history')
  /\ last' = [op |-> "add", item |-> HistoryItem(<<now', r>>, toolId, now')]
  /\ HistoryOnly

\* delete(id), of the item at a place of the array
Delete(i) ==
  /\ Op
  /\ i \in DOMAIN history
  /\ history' = SelectSeq(history, LAMBDA item : item.id # history[i].id)
  /\ file' = Saved(history')
  /\ last' = [op |-> "delete", item |-> history[i]]
  /\ HistoryOnly
  /\ UNCHANGED now

\* clear(toolId)
Clear(toolId) ==
  /\ Op
  /\ history' = SelectSeq(history, LAMBDA item : item.toolId # toolId)
  /\ file' = Saved(history')
  /\ last' = [op |-> "clear", toolId |-> toolId]
  /\ HistoryOnly
  /\ UNCHANGED now

NextHistory ==
  \/ InitService
  \/ \E toolId \in Tools, r \in Random : Add(toolId, r)
  \/ \E i \in {1, Len(history)} : Delete(i)
  \/ \E toolId \in Tools : Clear(toolId)

SpecHistory == InitHistory /\ [][NextHistory]_vars

(***************************************************************************)
(* Properties.  The ones of the handlers are read off calls, the ones of   *)
(* the resolver and the formatter off probe, under SpecApi; the ones of    *)
(* the cached path and of the editor actions under Spec.                   *)
(***************************************************************************)
\* The value getNestedValue finds in a text at the path given (not found
\* when the text is no JSON).
ValueAtPath(text) ==
  LET doc == JSONParse(text)
  IN IF doc.ok THEN GetNestedValue(doc.value, given) ELSE NotFound

\* The node findNodeAtLocation finds in a text at the path given.
NodeAtPath(text) ==
  FindNodeAtLocation(ParseTree(text).tree, ParsePathString(given))

\* A text is one JSON value.
IsJson(text) == ParseTree(text).ok

\* call.after is call.before with the range of the node at the path
\* replaced by one JSON value: what precedes the range and what follows it
\* are kept character by character.
OnlySpanReplaced(call) ==
  LET node == NodeAtPath(call.before).node
      start == node.offset
      tail == Len(call.before) - (node.offset + node.length)
  IN /\ Len(call.after) >= start + tail
     /\ SubSeq(call.after, 1, start) = SubSeq(call.before, 1, start)
     /\ SubSeq(call.after, Len(call.after) - tail + 1, Len(call.after))
          = SubSeq(call.before, Len(call.before) - tail + 1, Len(call.before))
     /\ IsJson(SubSeq(call.after, start + 1, Len(call.after) - tail))

\* C1: after a successful expand or compress in span-replacement mode the
\* new text is the old text with only the range of the target value node
\* replaced: every character before the range and every character after it
\* is unchanged.
SpanReplacementKeepsTheRest ==
  \A i \in DOMAIN calls :
    calls[i].kind = "span" => OnlySpanReplaced(calls[i])

\* C1's case: a span replacement in the middle of a text of two lines.
SpanReplacedOnSecondCall ==
  /\ Len(calls) = 2
  /\ calls[2].kind = "span"
  /\ calls[2].after # calls[2].before
  /\ NL \in {calls[2].before[j] : j \in 1..Len(calls[2].before)}
  /\ NodeAtPath(calls[2].before).node.offset > 0

\* C2: when expand or compress ends in an error, the text after the call is
\* the text before the call.
ErrorLeavesTextUnchanged ==
  \A i \in DOMAIN calls :
    IsError(calls[i].kind) => calls[i].after = calls[i].before

\* C2's case: an expand that found a string holding no JSON.
ExpandFoundNoJson ==
  /\ calls # <<>>
  /\ calls[1].op = "expand"
  /\ calls[1].kind = "EmbeddedParseError"

\* expand on a value that is no string, or compress on a value that is no
\* object and no array, ends in TypeMismatch and keeps the text.
TypeChecked(call) ==
  LET target == ValueAtPath(call.before)
      refused == call.kind = "TypeMismatch" /\ call.after = call.before
  IN target.found =>
       /\ (call.op = "expand" /\ target.value.t # "string") => refused
       /\ (call.op = "compress" /\ target.value.t \notin {"object", "array"})
            => refused

\* C3: expand on a path whose decoded value is not a string fails with a
\* type mismatch, compress on a path whose decoded value is not an object
\* or array fails with a type mismatch, and neither changes the text.
WrongTypeIsRefused == \A i \in DOMAIN calls : TypeChecked(calls[i])

\* C3's case: compress was called on null.
CompressCalledOnNull ==
  /\ calls # <<>>
  /\ calls[1].op = "compress"
  /\ ValueAtPath(calls[1].before).found
  /\ ValueAtPath(calls[1].before).value = VNull
  /\ calls[1].kind = "TypeMismatch"

\* Two calls were made, first and then second, on the same path.
Ran(first, second) ==
  /\ Len(calls) = 2
  /\ calls[1].op = first
  /\ calls[2].op = second

Succeeded(call) == ~IsError(call.kind)

\* C4: for a path whose target is a string holding valid JSON text, expand
\* and then compress on that path both succeed and leave at the path a
\* string whose decoding equals the decoding of the original string.
ExpandThenCompressRestoresString ==
  LET before == ValueAtPath(calls[1].before)
      after == ValueAtPath(calls[2].after)
  IN (/\ Ran("expand", "compress")
      /\ before.found
      /\ before.value.t = "string"
      /\ IsJson(before.value.s))
     => /\ Succeeded(calls[1])
        /\ Succeeded(calls[2])
        /\ after.found
        /\ after.value.t = "string"
        /\ JSONParse(after.value.s) = JSONParse(before.value.s)

\* C5: for every path expand succeeds on, the document compress(expand(x))
\* decodes to the value x decodes to.
CompressOfExpandDecodesToOriginal ==
  (Ran("expand", "compress") /\ Succeeded(calls[1]))
  => JSONParse(calls[2].after) = JSONParse(calls[1].before)

\* C6: for a path whose target is an object or an array, compress and then
\* expand on that path both succeed and give a document that decodes to the
\* value the original document decodes to.
CompressThenExpandRestoresDocument ==
  LET before == ValueAtPath(calls[1].before)
  IN (/\ Ran("compress", "expand")
      /\ before.found
      /\ before.value.t \in {"object", "array"})
     => /\ Succeeded(calls[1])
        /\ Succeeded(calls[2])
        /\ JSONParse(calls[2].after) = JSONParse(calls[1].before)

LeafTypes == {"string", "number", "boolean", "null"}

\* The offset is where the node starts or where it ends.
AtBoundary(offset, node) ==
  offset \in {node.offset, node.offset + node.length}

\* C7: resolving at the span-start or span-end offset of a leaf returns the
\* leaf's path, the sequence of keys and indices from the root to it.
ResolveAtLeafBoundaryGivesItsPath ==
  probe.op = "resolve" =>
    \A addr \in ValueAddresses(content) :
      LET tree == ParseTree(content).tree
          leaf == NodeAt(tree, addr)
      IN (leaf.type \in LeafTypes /\ AtBoundary(probe.offset, leaf))
         => /\ probe.result.found
            /\ ParsePathString(probe.result.path) = PathSegments(tree, addr)

\* C8: parsePathString of the string built from a segment sequence of the
\* resolver gives that sequence back.
ParseOfFormatIsIdentity ==
  probe.op = "path" => probe.parts = probe.segments

\* C9: every change of the text leaves the cached path empty.
TextChangeResetsCachedPath ==
  [][content' # content => ~lastDetectedPathRef'.found]_vars

\* C10: a successful expand or compress is a span replacement, never a
\* rewrite of the whole document passed off as one.
NoSilentWholeDocumentRewrite ==
  last.op \in {"expand", "compress"} => last.kind # "whole"

\* {"a":{(newline)  "b": 1(newline)}}: the first example with the value of
\* a replaced by its decoding printed at indent 2
EmbeddedSpanExpanded ==
  <<"{", "\"", "a", "\"", ":", "{", "\n", " ", " ", "\"", "b", "\"", ":", " ",
    "1", "\n", "}", "}">>

\* The first example printed whole at indent 2.
EmbeddedPrettyPrinted ==
  <<"{", "\n", " ", " ", "\"", "a", "\"", ":", " ", "{", "\n", " ", " ", " ",
    " ", "\"", "b", "\"", ":", " ", "1", "\n", " ", " ", "}", "\n", "}">>

\* The calls are those of the first example: its document, path a, indent 2,
\* expand first.
FirstExample ==
  /\ calls # <<>>
  /\ calls[1].op = "expand"
  /\ calls[1].before = DocEmbedded
  /\ given = <<"a">>
  /\ indentSize = 2

\* compress after the expand of the first example gives a document that
\* decodes to what the original document decodes to.
FirstExampleRestored ==
  (FirstExample /\ Ran("expand", "compress"))
  => /\ Succeeded(calls[2])
     /\ JSONParse(calls[2].after) = JSONParse(DocEmbedded)

\* C11 as stated: on {"a":"{\"b\":1}"}, path a, indent 2, expand gives the
\* whole document pretty-printed, and compress on path a of that result
\* gives a document that decodes to the original document's value.
FirstExampleExpandsToPrettyDocument ==
  /\ FirstExample => calls[1].after = EmbeddedPrettyPrinted
  /\ FirstExampleRestored

\* C11 amended: expand gives the original text with only the value of a
\* replaced by its decoding printed at indent 2, and compress on path a of
\* that result gives a document that decodes to the original document's
\* value.
FirstExampleExpandsInPlace ==
  /\ FirstExample => calls[1].after = EmbeddedSpanExpanded
  /\ FirstExampleRestored

\* C11's case: the first example expanded and then compressed.
FirstExampleRoundTrip ==
  /\ FirstExample
  /\ Ran("expand", "compress")
  /\ calls[1].kind = "span"
  /\ calls[2].kind = "span"

\* The addresses of the values that are the value of a property.
PropertyValues(tree) ==
  {addr \in Addresses(tree, <<>>) :
     addr # <<>> /\ NodeAt(tree, SubSeq(addr, 1, Len(addr) - 1)).type = "property"}

\* The offset is inside the token of a node, past its first character and
\* before its end.
InsideToken(offset, node) ==
  offset > node.offset /\ offset < node.offset + node.length

\* The resolver's result at an offset inside the key of the property whose
\* value is at addr names the property and carries its value, as does the
\* result at the offset where the value starts.
KeyResolved(tree, addr) ==
  LET property == NodeAt(tree, SubSeq(addr, 1, Len(addr) - 1))
      value == property.children[2]
      atValue == PathInTree(tree, value.offset, Len(content))
  IN InsideToken(probe.offset, property.children[1])
     => /\ probe.result.found
        /\ ParsePathString(probe.result.path) = PathSegments(tree, addr)
        /\ probe.result.value = Decode(value)
        /\ atValue = probe.result

\* C12: for every property of a valid document, an offset inside the key
\* token resolves to the same path and value as an offset in the value
\* token: the path ends with the property's key and the value is the
\* property's decoded value.
KeyTokenResolvesLikeValueToken ==
  (probe.op = "resolve" /\ IsJson(content))
  => \A addr \in PropertyValues(ParseTree(content).tree) :
       KeyResolved(ParseTree(content).tree, addr)

\* The second example: in {"rows":[{"x":1},{"x":2}]} the second x key gives
\* path rows[1].x with value 2.
SecondExampleResolved ==
  (probe.op = "resolve" /\ content = DocRows /\ probe.offset = 19)
  => /\ probe.result.found
     /\ probe.result.path = <<"r", "o", "w", "s", "[", "1", "]", ".", "x">>
     /\ probe.result.value = VNumber(NumVal(2, <<>>))

\* The addresses of the leaves that are an element of an array that is
\* itself an element of an array.
NestedArrayLeaves(tree) ==
  {addr \in Addresses(tree, <<>>) :
     /\ Len(addr) >= 2
     /\ NodeAt(tree, addr).type \in LeafTypes
     /\ NodeAt(tree, SubSeq(addr, 1, Len(addr) - 1)).type = "array"
     /\ NodeAt(tree, SubSeq(addr, 1, Len(addr) - 2)).type = "array"}

\* [i][j] for the element j of the element i (both counted from 0).
Brackets(i, j) ==
  <<"[">> \o NatToChars(i) \o <<"]", "[">> \o NatToChars(j) \o <<"]">>

\* path ends with the text suffix.
EndsWith(path, suffix) ==
  /\ Len(path) >= Len(suffix)
  /\ SubSeq(path, Len(path) - Len(suffix) + 1, Len(path)) = suffix

\* The resolver's result inside the leaf at addr: one index per enclosing
\* array from the root down, the last two in consecutive brackets, and the
\* path leads getNestedValue to the leaf's value.
NestedLeafResolved(tree, addr) ==
  LET leaf == NodeAt(tree, addr)
      n == Len(addr)
      fetched == GetNestedValue(Decode(tree), probe.result.path)
  IN (probe.offset >= leaf.offset /\ probe.offset < leaf.offset + leaf.length)
     => /\ probe.result.found
        /\ ParsePathString(probe.result.path) = PathSegments(tree, addr)
        /\ EndsWith(probe.result.path, Brackets(addr[n - 1] - 1, addr[n] - 1))
        /\ probe.result.value = Decode(leaf)
        /\ fetched.found
        /\ fetched.value = Decode(leaf)

\* C13: for a leaf nested in arrays of arrays the resolved path lists one
\* index per enclosing array in root-to-leaf order, written as consecutive
\* brackets after the nearest key, and resolving that path in the decoded
\* document returns the leaf's value, also when the path starts with an
\* index.
NestedArrayLeafResolves ==
  (probe.op = "resolve" /\ IsJson(content))
  => \A addr \in NestedArrayLeaves(ParseTree(content).tree) :
       NestedLeafResolved(ParseTree(content).tree, addr)

\* The third example: in {"m":[[10,20],[30,40]]} the value 40 gives path
\* m[1][1], and the value at that path is 40; in the array at the root of
\* [ {"":"2"}, [3]] the value 3 gives path [1][0].
ThirdExampleResolved ==
  /\ (probe.op = "resolve" /\ content = DocMatrix /\ probe.offset = 19)
     => /\ probe.result.found
        /\ probe.result.path = <<"m", "[", "1", "]", "[", "1", "]">>
        /\ probe.result.value = VNumber(NumVal(40, <<>>))
  /\ (probe.op = "resolve" /\ content = DocArray /\ probe.offset = 13)
     => /\ probe.result.found
        /\ probe.result.path = <<"[", "1", "]", "[", "0", "]">>
        /\ probe.result.value = VNumber(NumVal(3, <<>>))

\* C14: on a text that is not valid JSON, path resolution returns no path
\* at any offset: no guessed path, no value.
InvalidTextResolvesToNothing ==
  (probe.op = "resolve" /\ ~IsJson(content)) => probe.result = NoPath

\* C14's case: the resolver was called on the 1 of {"a":1, where the
\* closing brace is missing.
ResolvedInUnclosedObject ==
  /\ probe.op = "resolve"
  /\ content = DocUnclosed
  /\ probe.offset = 5

\* The node the resolver's path names when it is parsed and located in the
\* parse tree, as applyValueReplace does.
Located(tree) ==
  FindNodeAtLocation(tree, ParsePathString(probe.result.path))

\* The value node under the offset probed, when the offset is in a value
\* node and the resolver returned a path.
HitValue(tree) ==
  LET hit == FindNodeAtOffset(tree, probe.offset, TRUE, <<>>)
  IN /\ probe.result.found
     /\ hit.found
     /\ hit.addr \in Addresses(tree, <<>>)
     /\ PathSegments(tree, hit.addr) # <<>>

\* C15: the path string the resolver returns for an offset inside a value
\* node, parsed and located in a parse tree of the same text, yields that
\* very node, with the same offset and length.
LocationInvertsResolution ==
  (probe.op = "resolve" /\ IsJson(content) /\ HitValue(ParseTree(content).tree))
  => LET tree == ParseTree(content).tree
         hit == FindNodeAtOffset(tree, probe.offset, TRUE, <<>>)
     IN /\ Located(tree).found
        /\ Located(tree).node.offset = NodeAt(tree, hit.addr).offset
        /\ Located(tree).node.length = NodeAt(tree, hit.addr).length

\* C16: on a valid document the value resolver (getNestedValue over the
\* decoded document) resolves the path exactly when the node locator
\* (findNodeAtLocation over the parse tree, with the parsed segments) does.
ResolverAndLocatorAgree ==
  \A i \in DOMAIN calls :
    IsJson(calls[i].before)
    => (ValueAtPath(calls[i].before).found
          <=> NodeAtPath(calls[i].before).found)

\* The k-th offset of the window around offset o: o-1 .. o-20, then
\* o+1 .. o+20.
WindowOffset(o, k) ==
  IF k <= searchRadius THEN o - k ELSE o + (k - searchRadius)

\* The places of the window of offset o, in a text of length len, whose
\* offset lies in the span of a node.
WindowHits(tree, o, len) ==
  {k \in 1..(2 * searchRadius) :
     /\ WindowOffset(o, k) >= 0
     /\ k > searchRadius => WindowOffset(o, k) < len
     /\ FindNodeAtOffset(tree, WindowOffset(o, k), TRUE, <<>>).found}

\* No node's span contains the offset probed.
OutsideEveryNode(tree) ==
  ~FindNodeAtOffset(tree, probe.offset, TRUE, <<>>).found

\* The resolver's result is the path of the first node hit in the window.
FromFirstHit(tree) ==
  LET hits == WindowHits(tree, probe.offset, Len(content))
      first == WindowOffset(probe.offset, Min(hits))
  IN IF hits = {} THEN probe.result = NoPath
     ELSE probe.result
            = BuildAccuratePath(tree, Decode(tree),
                FindNodeAtOffset(tree, first, TRUE, <<>>).addr)

Punctuation == {"{", "}", "[", "]", ",", ":", " ", NL, TAB}

\* A value with a path of its own lies within 20 characters of the offset.
FieldNearby(tree, o) ==
  \E addr \in Addresses(tree, <<>>) :
    /\ PathSegments(tree, addr) # <<>>
    /\ NodeAt(tree, addr).offset - o <= searchRadius
    /\ o - (NodeAt(tree, addr).offset + NodeAt(tree, addr).length)
         <= searchRadius

\* The offset probed is on punctuation or white space, or past the end of
\* the text.
OnPunctuation ==
  \/ probe.offset >= Len(content)
  \/ content[probe.offset + 1] \in Punctuation

\* C17, the order: when no node's span contains the offset, offset-1 down
\* to offset-20 and then offset+1 up to offset+20 are probed and the path is
\* resolved from the first node hit.
WindowProbedInOrder ==
  (probe.op = "resolve" /\ IsJson(content)
     /\ OutsideEveryNode(ParseTree(content).tree))
  => FromFirstHit(ParseTree(content).tree)

\* C17, the purpose: a click on punctuation or white space within 20
\* characters of a field yields a field's path.
PunctuationYieldsField ==
  (probe.op = "resolve" /\ IsJson(content) /\ OnPunctuation
     /\ FieldNearby(ParseTree(content).tree, probe.offset))
  => probe.result.found

\* C17, not-found: when no node's span contains the offset, no path is
\* returned only if nothing is hit in the window.
NotFoundOnlyIfNothingHit ==
  (probe.op = "resolve" /\ IsJson(content)
     /\ OutsideEveryNode(ParseTree(content).tree) /\ ~probe.result.found)
  => WindowHits(ParseTree(content).tree, probe.offset, Len(content)) = {}

\* C17: when no node's span contains the cursor offset the resolver probes
\* offset-1 down to offset-20 and then offset+1 up to offset+20 and
\* resolves the path from the first node hit, so that a click on
\* punctuation or white space within 20 characters of a field yields that
\* field's path, and it returns not-found only if nothing is hit in the
\* window.
WindowSearchFindsNearbyField ==
  /\ WindowProbedInOrder
  /\ PunctuationYieldsField
  /\ NotFoundOnlyIfNothingHit

\* after is before with the range of node replaced by one JSON value.
SpanReplacedAt(before, after, node) ==
  LET start == node.offset
      tail == Len(before) - (node.offset + node.length)
  IN /\ Len(after) >= start + tail
     /\ SubSeq(after, 1, start) = SubSeq(before, 1, start)
     /\ SubSeq(after, Len(after) - tail + 1, Len(after))
          = SubSeq(before, Len(before) - tail + 1, Len(before))
     /\ IsJson(SubSeq(after, start + 1, Len(after) - tail))

\* The path resolves in the text: the value resolver finds a value and the
\* node locator a node.
ResolvesIn(text, path) ==
  /\ IsJson(text)
  /\ GetNestedValue(JSONParse(text).value, path).found
  /\ FindNodeAtLocation(ParseTree(text).tree, ParsePathString(path)).found

\* What a run of an editor action on text before with the path it used may
\* leave: the text unchanged, or the span the path locates in before
\* replaced; and with a path that does not resolve in before, an error and
\* the text unchanged.
RanOnCurrentText(before, after, did) ==
  /\ after # before
     => /\ ResolvesIn(before, did.path)
        /\ SpanReplacedAt(before, after,
             FindNodeAtLocation(ParseTree(before).tree,
                                ParsePathString(did.path)).node)
  /\ ~ResolvesIn(before, did.path)
     => /\ IsError(did.kind)
        /\ after = before

\* C18: whatever detections and edits came before, the span an expand or
\* compress replaces is the one the path locates in the text the editor
\* holds when the action is triggered, and with a path that no longer
\* resolves in that text the operation reports an error and leaves the text
\* unchanged.
TriggerActsOnCurrentText ==
  [][(last'.op \in {"expand", "compress"} /\ steps' # steps)
     => RanOnCurrentText(content, content', last')]_vars

\* C19: an expand run from the editor's action prints the decoded inner
\* value with the indent width the selector shows when the action is
\* triggered.
ExpandUsesSelectedIndent ==
  [][(last'.op = "expand" /\ steps' # steps /\ ~IsError(last'.kind))
     => content' = HandleExpandField(last'.path, content, indentSize).content]_vars

\* C20: after a successful expand the decoded value at the path is an
\* object or an array, on which compress is valid.
ExpandLeavesStructure ==
  \A i \in DOMAIN calls :
    (calls[i].op = "expand" /\ Succeeded(calls[i]))
    => /\ ValueAtPath(calls[i].after).found
       /\ ValueAtPath(calls[i].after).value.t \in {"object", "array"}

IsDelimiter(line, i) ==
  /\ CharAt(line, i) = QUOTE
  /\ \E n \in 0..i :
       /\ n % 2 = 0
       /\ \A k \in 1..n : CharAt(line, i - k) = BSL
       /\ CharAt(line, i - n - 1) # BSL

\* The delimiters of the line at or left of index i.
DelimitersUpTo(line, i) ==
  {d \in 0..(Len(line) - 1) : d <= i /\ IsDelimiter(line, d)}

\* With the nearest delimiter at or left of the offset and the nearest one
\* left of it, the key found is the text strictly between them; without
\* either, no key is found.
KeyIsBetweenDelimiters(line, offset, result) ==
  LET right == DelimitersUpTo(line, offset)
      left == DelimitersUpTo(line, Max(right) - 1)
  IN IF right = {} \/ left = {} THEN result = NoKey
     ELSE result.found
          => /\ result.keyEndQuote = Max(right)
             /\ result.keyStartQuote = Max(left)
             /\ result.key = SubSeq(line, Max(left) + 2, Max(right))

\* Both delimiters exist and some text lies between them.
KeyIsFound(line, offset) ==
  LET right == DelimitersUpTo(line, offset)
      left == DelimitersUpTo(line, Max(right) - 1)
  IN right # {} /\ left # {} /\ Max(left) + 1 < Max(right)

\* C22: in the quote search a double quote is a delimiter exactly when an
\* even number of consecutive backslashes precedes it; the key is the text
\* strictly between the nearest delimiter at or left of the cursor and the
\* nearest one left of that, and nothing is returned when either is
\* missing.
QuoteSearchFollowsParity ==
  probe.op = "scan"
  => /\ KeyIsBetweenDelimiters(content, probe.offset, probe.result)
     /\ KeyIsFound(content, probe.offset) => probe.result.found

\* C22's case: the key found holds a quote, escaped, and the closing quote
\* follows two backslashes.
ScannedPastEscapedQuotes ==
  /\ probe.op = "scan"
  /\ probe.result.found
  /\ \/ QUOTE \in {probe.result.key[i] : i \in 1..Len(probe.result.key)}
     \/ probe.result.key = <<BSL, BSL>>

\* The address of the value a node stands for: the node itself, or the
\* value of the property when the node is a property or its key token.
ValueAddress(tree, addr) ==
  IF NodeAt(tree, addr).type = "property" THEN Append(addr, 2)
  ELSE IF addr # <<>> /\ addr[Len(addr)] = 1
          /\ NodeAt(tree, SubSeq(addr, 1, Len(addr) - 1)).type = "property"
    THEN Append(SubSeq(addr, 1, Len(addr) - 1), 2)
  ELSE addr

\* The value the resolver returned is the decoded value of the node it
\* found for the offset.
ValueIsOfNodeFound(tree) ==
  LET hit == FindNodeNear(tree, probe.offset, Len(content))
  IN probe.result.value = Decode(NodeAt(tree, ValueAddress(tree, hit.addr)))

\* C23: whenever path resolution returns a path and a value for an offset,
\* the value is the decoded value of the parse-tree node found at that
\* offset (of its property's value when the node is a key token), never
\* that of another field that shares the path string.
ResolvedValueIsTheNodeFound ==
  (probe.op = "resolve" /\ probe.result.found)
  => ValueIsOfNodeFound(ParseTree(content).tree)

\* The innermost node at the offset probed is the key token of the
\* property whose value is at addr, the property itself (the colon and the
\* white space between key and value), or its value when that is a leaf.
InProperty(tree, addr) ==
  LET hit == FindNodeAtOffset(tree, probe.offset, TRUE, <<>>)
      property == SubSeq(addr, 1, Len(addr) - 1)
  IN /\ hit.found
     /\ \/ hit.addr = property
        \/ hit.addr = Append(property, 1)
        \/ hit.addr = addr /\ NodeAt(tree, addr).type \in LeafTypes

\* The key of the property whose value is at addr.
KeyOf(tree, addr) ==
  NodeAt(tree, SubSeq(addr, 1, Len(addr) - 1)).children[1].value

\* C24: for every offset inside a property's span (its key token, the colon
\* and white space between key and value, its value token when that is a
\* leaf) the resolved path ends with that property's key, and never is the
\* path of the enclosing container.
OffsetInPropertyResolvesToIt ==
  (probe.op = "resolve" /\ IsJson(content))
  => \A addr \in PropertyValues(ParseTree(content).tree) :
       InProperty(ParseTree(content).tree, addr)
       => /\ probe.result.found
          /\ EndsWith(probe.result.path, KeyOf(ParseTree(content).tree, addr))
          /\ Len(ParsePathString(probe.result.path))
               = Len(PathSegments(ParseTree(content).tree, addr))

\* The document call.after decodes to is the one call.before decodes to,
\* but for the value at the path given.
DiffersOnlyAtPath(call) ==
  LET before == JSONParse(call.before)
      after == JSONParse(call.after)
      old == GetNestedValue(before.value, given)
  IN /\ before.ok
     /\ after.ok
     /\ old.found
     /\ GetNestedValue(after.value, given).found
     /\ GetNestedValue(after.value, given).keys = old.keys
     /\ AssignAt(after.value, old.keys, old.value) = before.value

\* C25: every successful expand or compress maps valid JSON to valid JSON:
\* the text after it parses, and the document it decodes to differs from
\* the one decoded before only at the target path.
SuccessKeepsJsonValid ==
  \A i \in DOMAIN calls :
    Succeeded(calls[i]) => DiffersOnlyAtPath(calls[i])

\* C25's case: two successful calls, the second a span replacement below
\* the top level of a document that has other fields.
TwoSuccessfulEdits ==
  /\ Len(calls) = 2
  /\ calls[1].kind \in {"span", "whole"}
  /\ calls[2].kind = "span"
  /\ Len(GetNestedValue(JSONParse(calls[2].before).value, given).keys) > 1
  /\ JSONParse(calls[2].after) # JSONParse(calls[2].before)

\* The validation of the text in the editor has just run.
Validated ==
  /\ last.op = "validate"
  /\ ~isValidating
  /\ error = "none" <=> (IsBlank(content) \/ JSONParse(content).ok)
  /\ parsedJson = IF ~IsBlank(content) /\ JSONParse(content).ok
                  THEN JSONParse(content).value ELSE VNull

\* C26: after the text changes in the editor, validation eventually runs on
\* the latest text, once: no validation runs while none is pending, and the
\* one that runs is on the text of the moment it runs.
DebouncedValidationRuns ==
  /\ isValidating ~> Validated
  /\ [][~isValidating => last'.op # "validate"]_vars
  /\ [][last'.op = "validate" => content' = content]_vars

\* C26's case: the validation that ran at the end of a session found the
\* text of that moment invalid.
ValidatedAfterChanges ==
  /\ Validated
  /\ steps = MaxSteps
  /\ content = DocOpen
  /\ error # "none"

\* C27: whenever no validation is pending, the status shown agrees with the
\* text: error is null exactly when the text is blank or parses as JSON;
\* and so after every operation, those that fail included.
StatusAgreesWithText ==
  ~isValidating
  => (error = "none" <=> (IsBlank(content) \/ JSONParse(content).ok))

\* C28: whenever no validation is pending and parsedJson is not null, it is
\* the value the text decodes to; after clearContent the preview holds no
\* value of the text before.
PreviewShowsTheText ==
  /\ (~isValidating /\ parsedJson # VNull)
     => /\ JSONParse(content).ok
        /\ parsedJson = JSONParse(content).value
  /\ last.op = "clear" => parsedJson = VNull

\* The items of a tool in an array.
ItemsOf(items, toolId) ==
  {i \in DOMAIN items : items[i].toolId = toolId}

Range(items) == {items[i] : i \in DOMAIN items}

\* C29: after any sequence of add, delete and clear the service holds, and
\* has stored, at most 50 items of each tool; the item an add made is in
\* the array after it, and an add removes no item of another tool.
HistoryKeepsFiftyPerTool ==
  /\ [](\A toolId \in Tools :
          /\ Cardinality(ItemsOf(history, toolId)) <= 50
          /\ Cardinality(ItemsOf(file.data, toolId)) <= 50)
  /\ [](last.op = "add" => last.item \in Range(history))
  /\ [][last'.op = "add"
        => \A i \in DOMAIN history :
             history[i].toolId # last'.item.toolId
             => history[i] \in Range(history')]_vars

\* C29's case: an add to a tool that held 50 items dropped the oldest of
\* them and left 50, the new one among them, and all those of the other
\* tool.
AddedToFullTool ==
  /\ last.op = "add"
  /\ last.item.toolId = "json-editor"
  /\ Cardinality(ItemsOf(history, "json-editor")) = 50
  /\ <<1, 0>> \notin Ids(history)
  /\ <<2, 0>> \notin Ids(history)
  /\ last.item \in Range(history)
  /\ Cardinality(ItemsOf(history, "diff")) = 8
  /\ file.data = history

====
